---- MODULE Spec2Model ----
(***************************************************************************)
(* Model of pyglet.scene2d.map: rectangular and hexagonal tile maps.       *)
(*                                                                         *)
(* Python values are records carrying a `type` field, so that None, str,   *)
(* list, tuple, image objects, tiles and maps can be told apart and        *)
(* compared.  A call that raises is modelled by the pair (exc, val): exc   *)
(* is the name of the exception ("" when the call returned) and val is     *)
(* the returned value.                                                     *)
(*                                                                         *)
(* The state is an interactive session on one map: `map` is the map that   *)
(* was constructed (None before construction or when construction          *)
(* raised), `tile` is the value of the last expression (the `_` of the     *)
(* module docstring), `raised` is the exception of the last call and       *)
(* `call` is the last call with its receiver and arguments.                *)
(***************************************************************************)
EXTENDS Integers, Sequences, FiniteSets, TLC

VARIABLES map, tile, raised, call

vars == <<map, tile, raised, call>>

---------------------------------------------------------------------------
(* Bounds of the explored inputs *)

MaxCols == 3
MaxRows == 2
MaxSize == 2

---------------------------------------------------------------------------
(* Python values *)

None == [type |-> "NoneType"]

Str(s) == [type |-> "str", s |-> s]

Image(i) == [type |-> "image", id |-> i]

List(items) == [type |-> "list", items |-> items]

Tuple(items) == [type |-> "tuple", items |-> items]

Ok(v) == [exc |-> "", val |-> v]

Raise(e) == [exc |-> e, val |-> None]

PyTruthy(v) ==
    CASE v.type = "NoneType" -> FALSE
      [] v.type = "list" -> Len(v.items) > 0
      [] v.type = "tuple" -> Len(v.items) > 0
      [] v.type = "str" -> v.s # ""
      [] OTHER -> TRUE

PyOr(a, b) == IF PyTruthy(a) THEN a ELSE b

PyLen(l) ==
    IF l.type \in {"list", "tuple"} THEN Ok(Len(l.items)) ELSE Raise("TypeError")

PyIndex(l, i) ==
    IF l.type \notin {"list", "tuple"} THEN Raise("TypeError")
    ELSE IF i >= 0 /\ i < Len(l.items) THEN Ok(l.items[i + 1])
    ELSE IF i < 0 /\ i >= -Len(l.items) THEN Ok(l.items[Len(l.items) + i + 1])
    ELSE Raise("IndexError")

\* mutant of PyIndex2: the array is addressed [y][x]
PyIndex2_Transposed(l, x, y) ==
    LET row == PyIndex(l, y)
    IN  IF row.exc # "" THEN row ELSE PyIndex(row.val, x)

PyIndex2(l, x, y) ==
    LET col == PyIndex(l, x)
    IN  IF col.exc # "" THEN col ELSE PyIndex(col.val, y)

---------------------------------------------------------------------------
(* class TileBase, class Tile *)

\* mutant of TileBase__init__: x and y are stored the wrong way round
TileBase__init___SwappedXY(cls, m, x, y, meta, image) ==
    [type |-> cls, width |-> m.tw, height |-> m.th, x |-> y, y |-> x,
     meta |-> meta, image |-> image]

TileBase__init__(cls, m, x, y, meta, image) ==
    [type |-> cls, width |-> m.tw, height |-> m.th, x |-> x, y |-> y,
     meta |-> meta, image |-> image]

IsTile(v) == v.type \in {"Tile", "HexTile"}

---------------------------------------------------------------------------
(* class Map *)

Map__init__(tw, th, origin, meta, images) ==
    IF meta = None /\ images = None THEN Raise("ValueError")
    ELSE LET l == PyOr(meta, images)
             n == PyLen(l)
             col == PyIndex(l, 1)
             rows == PyLen(col.val)
         IN  IF n.exc # "" THEN Raise(n.exc)
             ELSE IF col.exc # "" THEN Raise(col.exc)
             ELSE IF rows.exc # "" THEN Raise(rows.exc)
             ELSE Ok([type |-> "Map", tw |-> tw, th |-> th,
                      x |-> origin[1], y |-> origin[2], z |-> origin[3],
                      meta |-> meta, images |-> images,
                      pxw |-> n.val * tw, pxh |-> rows.val * th])

\* mutant of PyFloorDiv: the quotient is truncated towards zero
PyFloorDiv_Truncating(a, b) ==
    IF b = 0 THEN Raise("ZeroDivisionError")
    ELSE IF (a >= 0) = (b > 0)
         THEN Ok((IF a >= 0 THEN a ELSE -a) \div (IF b > 0 THEN b ELSE -b))
         ELSE Ok(-((IF a >= 0 THEN a ELSE -a) \div (IF b > 0 THEN b ELSE -b)))

PyFloorDiv(a, b) ==
    IF b = 0 THEN Raise("ZeroDivisionError")
    ELSE IF b > 0 THEN Ok(a \div b)
    ELSE Ok((-a) \div (-b))

\* mutant of Map_lookup: negative coordinates are not rejected
Map_lookup_NoNegativeCheck(self, x, y) ==
    LET meta == IF PyTruthy(self.meta) THEN PyIndex2(self.meta, x, y)
                ELSE Ok(self.meta)
        image == IF PyTruthy(self.images) THEN PyIndex2(self.images, x, y)
                 ELSE Ok(self.images)
    IN  IF meta.exc = "IndexError" THEN Ok(None)
        ELSE IF meta.exc # "" THEN meta
        ELSE IF image.exc = "IndexError" THEN Ok(None)
        ELSE IF image.exc # "" THEN image
        ELSE Ok(TileBase__init__("Tile", self, x, y, meta.val, image.val))

Map_lookup(self, x, y) ==
    IF x < 0 \/ y < 0 THEN Ok(None)
    ELSE LET meta == IF PyTruthy(self.meta) THEN PyIndex2(self.meta, x, y)
                     ELSE Ok(self.meta)
             image == IF PyTruthy(self.images) THEN PyIndex2(self.images, x, y)
                      ELSE Ok(self.images)
         IN  IF meta.exc = "IndexError" THEN Ok(None)
             ELSE IF meta.exc # "" THEN meta
             ELSE IF image.exc = "IndexError" THEN Ok(None)
             ELSE IF image.exc # "" THEN image
             ELSE Ok(TileBase__init__("Tile", self, x, y, meta.val, image.val))

\* mutant of Map_get: the pixel x is divided by th and the pixel y by tw
Map_get_SwappedDivisors(self, pos, px) ==
    IF pos # None THEN Map_lookup(self, pos.items[1], pos.items[2])
    ELSE IF px # None THEN
        LET x == PyFloorDiv(px.items[1], self.th)
            y == PyFloorDiv(px.items[2], self.tw)
        IN  IF x.exc # "" THEN x
            ELSE IF y.exc # "" THEN y
            ELSE Map_lookup(self, x.val, y.val)
    ELSE Raise("ValueError")

Map_get(self, pos, px) ==
    IF pos # None THEN Map_lookup(self, pos.items[1], pos.items[2])
    ELSE IF px # None THEN
        LET x == PyFloorDiv(px.items[1], self.tw)
            y == PyFloorDiv(px.items[2], self.th)
        IN  IF x.exc # "" THEN x
            ELSE IF y.exc # "" THEN y
            ELSE Map_lookup(self, x.val, y.val)
    ELSE Raise("ValueError")

Tile_UP == <<0, 1>>

Tile_DOWN == <<0, -1>>

Tile_LEFT == <<-1, 0>>

Tile_RIGHT == <<1, 0>>

\* mutant of Tile_get_neighbor: dx and dy are applied to the wrong axes
Tile_get_neighbor_SwappedDelta(self, m, direction) ==
    LET dx == direction[1]
        dy == direction[2]
    IN  Map_get(m, Tuple(<<self.x + dy, self.y + dx>>), None)

Tile_get_neighbor(self, m, direction) ==
    LET dx == direction[1]
        dy == direction[2]
    IN  Map_get(m, Tuple(<<self.x + dx, self.y + dy>>), None)

Tile_get_top(self) == (self.y + 1) * self.height

Tile_get_bottom(self) == self.y * self.height

Tile_get_center(self) ==
    <<self.x * self.width + self.width \div 2, self.y * self.height + self.height \div 2>>

Tile_get_midtop(self) ==
    <<self.x * self.width + self.width \div 2, self.y * self.height>>

Tile_get_midbottom(self) ==
    <<self.x * self.width + self.width \div 2, (self.y + 1) * self.height>>

Tile_get_left(self) == self.x * self.width

Tile_get_right(self) == (self.x + 1) * self.width

Tile_get_topleft(self) == <<self.x * self.width, self.y * self.height>>

Tile_get_topright(self) == <<(self.x + 1) * self.width, self.y * self.height>>

Tile_get_bottomleft(self) == <<self.x * self.height, (self.y + 1) * self.height>>

Tile_get_bottomright(self) == <<(self.x + 1) * self.width, (self.y + 1) * self.height>>

Tile_get_midleft(self) ==
    <<self.x * self.width, self.y * self.height + self.height \div 2>>

Tile_get_midright(self) ==
    <<(self.x + 1) * self.width, self.y * self.height + self.height \div 2>>

---------------------------------------------------------------------------
(* class HexTile *)

HexTile_get_origin(self) ==
    LET x == self.x * (self.width \div 2 + self.width \div 4)
        y == self.y * self.height
    IN  IF self.x % 2 # 0 THEN <<x, y + self.height \div 2>> ELSE <<x, y>>

HexTile_get_top(self) == HexTile_get_origin(self)[2] + self.height

HexTile_get_right(self) ==
    LET o == HexTile_get_origin(self)
    IN  <<o[1] + self.width, o[2] + self.height \div 2>>

HexTile_get_bottom(self) == HexTile_get_origin(self)[2]

HexTile_get_center(self) ==
    LET o == HexTile_get_origin(self)
    IN  <<o[1] + self.width \div 2, o[2] + self.height \div 2>>

HexTile_get_midtop(self) ==
    LET o == HexTile_get_origin(self)
    IN  <<o[1] + self.width \div 2, o[2] + self.height>>

HexTile_get_midbottom(self) ==
    LET o == HexTile_get_origin(self)
    IN  <<o[1] + self.width \div 2, o[2]>>

HexTile_get_left(self) ==
    LET o == HexTile_get_origin(self)
    IN  <<o[1], o[2] + self.height \div 2>>

HexTile_get_topleft(self) ==
    LET o == HexTile_get_origin(self)
    IN  <<o[1] + self.width \div 4, o[2] + self.height>>

HexTile_get_topright(self) ==
    LET o == HexTile_get_origin(self)
    IN  <<o[1] + self.width \div 2 + self.width \div 4, o[2] + self.height>>

HexTile_get_bottomleft(self) ==
    LET o == HexTile_get_origin(self)
    IN  <<o[1] + self.width \div 4, o[2]>>

HexTile_get_bottomright(self) ==
    LET o == HexTile_get_origin(self)
    IN  <<o[1] + self.width \div 2 + self.width \div 4, o[2]>>

HexTile_get_midtopleft(self) ==
    LET o == HexTile_get_origin(self)
    IN  <<o[1] + self.width \div 8, o[2] + self.height \div 2 + self.height \div 4>>

HexTile_get_midtopright(self) ==
    LET o == HexTile_get_origin(self)
    IN  <<o[1] + self.width \div 2 + self.width \div 4 + self.width \div 8,
          o[2] + self.height \div 2 + self.height \div 4>>

HexTile_get_midbottomleft(self) ==
    LET o == HexTile_get_origin(self)
    IN  <<o[1] + self.width \div 8, o[2] + self.height \div 4>>

HexTile_get_midbottomright(self) ==
    LET o == HexTile_get_origin(self)
    IN  <<o[1] + self.width \div 2 + self.width \div 4 + self.width \div 8,
          o[2] + self.height \div 4>>

---------------------------------------------------------------------------
(* class HexMap *)

\* mutant of IntDivSqrt3: sqrt(3) is truncated to an integer before dividing
IntDivSqrt3_IntegerSqrt(th) == th

\* int(th / math.sqrt(3)): truncation towards zero of th / sqrt(3)
IntDivSqrt3(th) ==
    LET a == IF th < 0 THEN -th ELSE th
        e == CHOOSE k \in 0..a : 3 * k * k <= a * a /\ 3 * (k + 1) * (k + 1) > a * a
    IN  IF th < 0 THEN -e ELSE e

\* mutant of HexMap__init__: pxh is read from column 1 whatever the width
HexMap__init___NoSingleColumnCase(th, origin, meta, images) ==
    IF meta = None /\ images = None THEN Raise("ValueError")
    ELSE LET edge_length == IntDivSqrt3(th)
             tw == edge_length * 2
             self == [type |-> "HexMap", tw |-> tw, th |-> th,
                      x |-> origin[1], y |-> origin[2], z |-> origin[3],
                      meta |-> meta, images |-> images,
                      edge_length |-> edge_length,
                      left |-> <<tw \div 2, th \div 2>>,
                      right |-> <<edge_length * 2, th \div 2>>]
             l == PyOr(meta, images)
             width == PyLen(l)
             col == PyIndex(l, 0)
             height == PyLen(col.val)
             pxw == HexTile_get_right(
                        TileBase__init__("HexTile", self, width.val - 1, 0, None, None))[1]
             pxh == HexTile_get_top(
                        TileBase__init__("HexTile", self, 1, height.val - 1, None, None))
         IN  IF width.exc # "" THEN Raise(width.exc)
             ELSE IF col.exc # "" THEN Raise(col.exc)
             ELSE IF height.exc # "" THEN Raise(height.exc)
             ELSE Ok([type |-> "HexMap", tw |-> tw, th |-> th,
                      x |-> origin[1], y |-> origin[2], z |-> origin[3],
                      meta |-> meta, images |-> images,
                      edge_length |-> edge_length,
                      left |-> <<tw \div 2, th \div 2>>,
                      right |-> <<edge_length * 2, th \div 2>>,
                      pxw |-> pxw, pxh |-> pxh])

\* mutant of HexMap__init__: pxw is read from the first column, not the last
HexMap__init___PxwFromFirstColumn(th, origin, meta, images) ==
    IF meta = None /\ images = None THEN Raise("ValueError")
    ELSE LET edge_length == IntDivSqrt3(th)
             tw == edge_length * 2
             self == [type |-> "HexMap", tw |-> tw, th |-> th,
                      x |-> origin[1], y |-> origin[2], z |-> origin[3],
                      meta |-> meta, images |-> images,
                      edge_length |-> edge_length,
                      left |-> <<tw \div 2, th \div 2>>,
                      right |-> <<edge_length * 2, th \div 2>>]
             l == PyOr(meta, images)
             width == PyLen(l)
             col == PyIndex(l, 0)
             height == PyLen(col.val)
             pxw == HexTile_get_right(
                        TileBase__init__("HexTile", self, 0, 0, None, None))[1]
             pxh == IF width.val > 1
                    THEN HexTile_get_top(
                        TileBase__init__("HexTile", self, 1, height.val - 1, None, None))
                    ELSE HexTile_get_top(
                        TileBase__init__("HexTile", self, 0, height.val - 1, None, None))
         IN  IF width.exc # "" THEN Raise(width.exc)
             ELSE IF col.exc # "" THEN Raise(col.exc)
             ELSE IF height.exc # "" THEN Raise(height.exc)
             ELSE Ok([type |-> "HexMap", tw |-> tw, th |-> th,
                      x |-> origin[1], y |-> origin[2], z |-> origin[3],
                      meta |-> meta, images |-> images,
                      edge_length |-> edge_length,
                      left |-> <<tw \div 2, th \div 2>>,
                      right |-> <<edge_length * 2, th \div 2>>,
                      pxw |-> pxw, pxh |-> pxh])

HexMap__init__(th, origin, meta, images) ==
    IF meta = None /\ images = None THEN Raise("ValueError")
    ELSE LET edge_length == IntDivSqrt3(th)
             tw == edge_length * 2
             self == [type |-> "HexMap", tw |-> tw, th |-> th,
                      x |-> origin[1], y |-> origin[2], z |-> origin[3],
                      meta |-> meta, images |-> images,
                      edge_length |-> edge_length,
                      left |-> <<tw \div 2, th \div 2>>,
                      right |-> <<edge_length * 2, th \div 2>>]
             l == PyOr(meta, images)
             width == PyLen(l)
             col == PyIndex(l, 0)
             height == PyLen(col.val)
             pxw == HexTile_get_right(
                        TileBase__init__("HexTile", self, width.val - 1, 0, None, None))[1]
             pxh == IF width.val > 1
                    THEN HexTile_get_top(
                        TileBase__init__("HexTile", self, 1, height.val - 1, None, None))
                    ELSE HexTile_get_top(
                        TileBase__init__("HexTile", self, 0, height.val - 1, None, None))
         IN  IF width.exc # "" THEN Raise(width.exc)
             ELSE IF col.exc # "" THEN Raise(col.exc)
             ELSE IF height.exc # "" THEN Raise(height.exc)
             ELSE Ok([type |-> "HexMap", tw |-> tw, th |-> th,
                      x |-> origin[1], y |-> origin[2], z |-> origin[3],
                      meta |-> meta, images |-> images,
                      edge_length |-> edge_length,
                      left |-> <<tw \div 2, th \div 2>>,
                      right |-> <<edge_length * 2, th \div 2>>,
                      pxw |-> pxw, pxh |-> pxh])

\* mutant of HexMap_lookup: the image is looked up but not handed to the tile
HexMap_lookup_DropsImage(self, x, y) ==
    IF x < 0 \/ y < 0 THEN Ok(None)
    ELSE LET meta == IF PyTruthy(self.meta) THEN PyIndex2(self.meta, x, y)
                     ELSE Ok(None)
             image == IF PyTruthy(self.images) THEN PyIndex2(self.images, x, y)
                      ELSE Ok(None)
         IN  IF meta.exc = "IndexError" THEN Ok(None)
             ELSE IF meta.exc # "" THEN meta
             ELSE IF PyTruthy(self.meta) /\ meta.val = None THEN Ok(None)
             ELSE IF image.exc = "IndexError" THEN Ok(None)
             ELSE IF image.exc # "" THEN image
             ELSE IF PyTruthy(self.images) /\ image.val = None THEN Ok(None)
             ELSE Ok(TileBase__init__("HexTile", self, x, y, meta.val, None))

\* mutant of HexMap_lookup: negative coordinates are not rejected
HexMap_lookup_NoNegativeCheck(self, x, y) ==
    LET meta == IF PyTruthy(self.meta) THEN PyIndex2(self.meta, x, y)
                ELSE Ok(None)
        image == IF PyTruthy(self.images) THEN PyIndex2(self.images, x, y)
                 ELSE Ok(None)
    IN  IF meta.exc = "IndexError" THEN Ok(None)
        ELSE IF meta.exc # "" THEN meta
        ELSE IF PyTruthy(self.meta) /\ meta.val = None THEN Ok(None)
        ELSE IF image.exc = "IndexError" THEN Ok(None)
        ELSE IF image.exc # "" THEN image
        ELSE IF PyTruthy(self.images) /\ image.val = None THEN Ok(None)
        ELSE Ok(TileBase__init__("HexTile", self, x, y, meta.val, image.val))

\* mutant of HexMap_lookup: a cell is empty only when meta and image are both None
HexMap_lookup_BothNone(self, x, y) ==
    IF x < 0 \/ y < 0 THEN Ok(None)
    ELSE LET meta == IF PyTruthy(self.meta) THEN PyIndex2(self.meta, x, y)
                     ELSE Ok(None)
             image == IF PyTruthy(self.images) THEN PyIndex2(self.images, x, y)
                      ELSE Ok(None)
         IN  IF meta.exc = "IndexError" THEN Ok(None)
             ELSE IF meta.exc # "" THEN meta
             ELSE IF image.exc = "IndexError" THEN Ok(None)
             ELSE IF image.exc # "" THEN image
             ELSE IF meta.val = None /\ image.val = None THEN Ok(None)
             ELSE Ok(TileBase__init__("HexTile", self, x, y, meta.val, image.val))

HexMap_lookup(self, x, y) ==
    IF x < 0 \/ y < 0 THEN Ok(None)
    ELSE LET meta == IF PyTruthy(self.meta) THEN PyIndex2(self.meta, x, y)
                     ELSE Ok(None)
             image == IF PyTruthy(self.images) THEN PyIndex2(self.images, x, y)
                      ELSE Ok(None)
         IN  IF meta.exc = "IndexError" THEN Ok(None)
             ELSE IF meta.exc # "" THEN meta
             ELSE IF PyTruthy(self.meta) /\ meta.val = None THEN Ok(None)
             ELSE IF image.exc = "IndexError" THEN Ok(None)
             ELSE IF image.exc # "" THEN image
             ELSE IF PyTruthy(self.images) /\ image.val = None THEN Ok(None)
             ELSE Ok(TileBase__init__("HexTile", self, x, y, meta.val, image.val))

\* mutant of HexMap_get: a pixel lookup answers "no tile here"
HexMap_get_PixelIsAbsent(self, pos, px) ==
    IF pos # None THEN HexMap_lookup(self, pos.items[1], pos.items[2])
    ELSE IF px # None THEN Ok(None)
    ELSE Raise("ValueError")

HexMap_get(self, pos, px) ==
    IF pos # None THEN HexMap_lookup(self, pos.items[1], pos.items[2])
    ELSE IF px # None THEN Raise("TypeError")
    ELSE Raise("ValueError")

HexTile_UP == "up"

HexTile_DOWN == "down"

HexTile_UP_LEFT == "up left"

HexTile_UP_RIGHT == "up right"

HexTile_DOWN_LEFT == "down left"

HexTile_DOWN_RIGHT == "down right"

\* mutant of HexTile_get_neighbor: the odd and even column cases are exchanged
HexTile_get_neighbor_ParityFlipped(self, m, direction) ==
    IF direction = HexTile_UP THEN
        HexMap_get(m, Tuple(<<self.x, self.y + 1>>), None)
    ELSE IF direction = HexTile_DOWN THEN
        HexMap_get(m, Tuple(<<self.x, self.y - 1>>), None)
    ELSE IF direction = HexTile_UP_LEFT THEN
        IF self.x % 2 = 0
        THEN HexMap_get(m, Tuple(<<self.x - 1, self.y + 1>>), None)
        ELSE HexMap_get(m, Tuple(<<self.x - 1, self.y>>), None)
    ELSE IF direction = HexTile_UP_RIGHT THEN
        IF self.x % 2 = 0
        THEN HexMap_get(m, Tuple(<<self.x + 1, self.y + 1>>), None)
        ELSE HexMap_get(m, Tuple(<<self.x + 1, self.y>>), None)
    ELSE IF direction = HexTile_DOWN_LEFT THEN
        IF self.x % 2 = 0
        THEN HexMap_get(m, Tuple(<<self.x - 1, self.y>>), None)
        ELSE HexMap_get(m, Tuple(<<self.x - 1, self.y - 1>>), None)
    ELSE IF direction = HexTile_DOWN_RIGHT THEN
        IF self.x % 2 = 0
        THEN HexMap_get(m, Tuple(<<self.x + 1, self.y>>), None)
        ELSE HexMap_get(m, Tuple(<<self.x + 1, self.y - 1>>), None)
    ELSE Raise("ValueError")

\* mutant of HexTile_get_neighbor: DOWN_RIGHT ignores the column parity
HexTile_get_neighbor_DownRightSlip(self, m, direction) ==
    IF direction = HexTile_UP THEN
        HexMap_get(m, Tuple(<<self.x, self.y + 1>>), None)
    ELSE IF direction = HexTile_DOWN THEN
        HexMap_get(m, Tuple(<<self.x, self.y - 1>>), None)
    ELSE IF direction = HexTile_UP_LEFT THEN
        IF self.x % 2 # 0
        THEN HexMap_get(m, Tuple(<<self.x - 1, self.y + 1>>), None)
        ELSE HexMap_get(m, Tuple(<<self.x - 1, self.y>>), None)
    ELSE IF direction = HexTile_UP_RIGHT THEN
        IF self.x % 2 # 0
        THEN HexMap_get(m, Tuple(<<self.x + 1, self.y + 1>>), None)
        ELSE HexMap_get(m, Tuple(<<self.x + 1, self.y>>), None)
    ELSE IF direction = HexTile_DOWN_LEFT THEN
        IF self.x % 2 # 0
        THEN HexMap_get(m, Tuple(<<self.x - 1, self.y>>), None)
        ELSE HexMap_get(m, Tuple(<<self.x - 1, self.y - 1>>), None)
    ELSE IF direction = HexTile_DOWN_RIGHT THEN
        HexMap_get(m, Tuple(<<self.x + 1, self.y - 1>>), None)
    ELSE Raise("ValueError")

HexTile_get_neighbor(self, m, direction) ==
    IF direction = HexTile_UP THEN
        HexMap_get(m, Tuple(<<self.x, self.y + 1>>), None)
    ELSE IF direction = HexTile_DOWN THEN
        HexMap_get(m, Tuple(<<self.x, self.y - 1>>), None)
    ELSE IF direction = HexTile_UP_LEFT THEN
        IF self.x % 2 # 0
        THEN HexMap_get(m, Tuple(<<self.x - 1, self.y + 1>>), None)
        ELSE HexMap_get(m, Tuple(<<self.x - 1, self.y>>), None)
    ELSE IF direction = HexTile_UP_RIGHT THEN
        IF self.x % 2 # 0
        THEN HexMap_get(m, Tuple(<<self.x + 1, self.y + 1>>), None)
        ELSE HexMap_get(m, Tuple(<<self.x + 1, self.y>>), None)
    ELSE IF direction = HexTile_DOWN_LEFT THEN
        IF self.x % 2 # 0
        THEN HexMap_get(m, Tuple(<<self.x - 1, self.y>>), None)
        ELSE HexMap_get(m, Tuple(<<self.x - 1, self.y - 1>>), None)
    ELSE IF direction = HexTile_DOWN_RIGHT THEN
        IF self.x % 2 # 0
        THEN HexMap_get(m, Tuple(<<self.x + 1, self.y>>), None)
        ELSE HexMap_get(m, Tuple(<<self.x + 1, self.y - 1>>), None)
    ELSE Raise("ValueError")

---------------------------------------------------------------------------
(* Inputs of the session *)

Letters == <<"a", "b", "c", "d", "e", "f", "g", "h", "i", "j", "k", "l",
             "m", "n", "o", "p", "q", "r", "s", "t">>

NoHole == <<-1, -1>>

\* the cells that may hold None: none, the first cell or the last cell
Holes(w, h) == {NoHole, <<0, 0>>, <<w - 1, h - 1>>}

\* a rectangular array of w columns and h rows addressed [x][y], every cell
\* distinct, the cell at `hole` holding None
MetaArray(w, h, hole) ==
    List([i \in 1..w |->
        List([j \in 1..h |->
            IF <<i - 1, j - 1>> = hole THEN None
            ELSE Str(Letters[(j - 1) * w + i])])])

ImageArray(w, h, hole) ==
    List([i \in 1..w |->
        List([j \in 1..h |->
            IF <<i - 1, j - 1>> = hole THEN None
            ELSE Image((j - 1) * w + i)])])

\* the arrays of the module docstring
DocMapMeta ==
    List(<<List(<<Str("a"), Str("d")>>), List(<<Str("b"), Str("e")>>),
           List(<<Str("c"), Str("f")>>)>>)

DocHexMeta ==
    List(<<List(<<Str("a"), Str("b")>>), List(<<Str("c"), Str("d")>>),
           List(<<Str("e"), Str("f")>>), List(<<Str("g"), Str("h")>>)>>)

DocSize == 32

Dims == (1..MaxCols) \X (1..MaxRows)

\* the (meta, images) pairs a map is constructed with: both absent, one
\* supplied, or two parallel arrays of the same dimensions
ArrayInputs ==
    {<<None, None>>, <<DocMapMeta, None>>, <<DocHexMeta, None>>}
    \cup UNION {{<<MetaArray(d[1], d[2], mh), None>> : mh \in Holes(d[1], d[2])} : d \in Dims}
    \cup UNION {{<<None, ImageArray(d[1], d[2], ih)>> : ih \in Holes(d[1], d[2])} : d \in Dims}
    \cup UNION {{<<MetaArray(d[1], d[2], mh), ImageArray(d[1], d[2], ih)>> :
                    mh \in Holes(d[1], d[2]), ih \in {NoHole, <<0, 0>>}} : d \in Dims}

TileSizes == (1..MaxSize) \cup {DocSize}

Origins == {<<0, 0, 0>>}

Cols(m) == Len(PyOr(m.meta, m.images).items)

Rows(m) == Len(PyOr(m.meta, m.images).items[1].items)

\* the positions probed: every cell, and the positions off each edge
Positions == ((-1)..(MaxCols + 1)) \X ((-1)..(MaxRows + 1))

---------------------------------------------------------------------------
(* The session *)

Init ==
    /\ map = None
    /\ tile = None
    /\ raised = ""
    /\ call = [op |-> "start"]

\* m = Map(tw, th, origin, meta, images)
NewMap ==
    /\ map = None
    /\ \E tw \in TileSizes, th \in TileSizes, origin \in Origins, a \in ArrayInputs :
        LET r == Map__init__(tw, th, origin, a[1], a[2])
        IN  /\ map' = r.val
            /\ raised' = r.exc
            /\ tile' = None
            /\ call' = [op |-> "Map", tw |-> tw, th |-> th, origin |-> origin,
                        meta |-> a[1], images |-> a[2]]

\* m = HexMap(th, origin, meta, images)
NewHexMap ==
    /\ map = None
    /\ \E th \in TileSizes, origin \in Origins, a \in ArrayInputs :
        LET r == HexMap__init__(th, origin, a[1], a[2])
        IN  /\ map' = r.val
            /\ raised' = r.exc
            /\ tile' = None
            /\ call' = [op |-> "HexMap", th |-> th, origin |-> origin,
                        meta |-> a[1], images |-> a[2]]

\* mutant of MapGet: the position asked for is stored in the x, y of the map
MapGet_ClobbersOrigin ==
    /\ map.type = "Map"
    /\ \E pos \in Positions :
        LET r == Map_get(map, Tuple(pos), None)
        IN  /\ tile' = r.val
            /\ raised' = r.exc
            /\ call' = [op |-> "get", pos |-> pos]
            /\ map' = [map EXCEPT !.x = pos[1], !.y = pos[2]]

\* m.get(pos) on a rectangular map
MapGet ==
    /\ map.type = "Map"
    /\ \E pos \in Positions :
        LET r == Map_get(map, Tuple(pos), None)
        IN  /\ tile' = r.val
            /\ raised' = r.exc
            /\ call' = [op |-> "get", pos |-> pos]
            /\ UNCHANGED map

\* m.get(pos) on a hexagonal map
HexMapGet ==
    /\ map.type = "HexMap"
    /\ \E pos \in Positions :
        LET r == HexMap_get(map, Tuple(pos), None)
        IN  /\ tile' = r.val
            /\ raised' = r.exc
            /\ call' = [op |-> "get", pos |-> pos]
            /\ UNCHANGED map

\* _.get_neighbor(direction) on the rectangular tile last returned
TileGetNeighbor ==
    /\ tile.type = "Tile"
    /\ \E direction \in {Tile_UP, Tile_DOWN, Tile_LEFT, Tile_RIGHT} :
        LET r == Tile_get_neighbor(tile, map, direction)
        IN  /\ tile' = r.val
            /\ raised' = r.exc
            /\ call' = [op |-> "get_neighbor", self |-> tile, direction |-> direction]
            /\ UNCHANGED map

\* _.get_neighbor(direction) on the hexagonal tile last returned
HexTileGetNeighbor ==
    /\ tile.type = "HexTile"
    /\ \E direction \in {HexTile_UP, HexTile_DOWN, HexTile_UP_LEFT, HexTile_UP_RIGHT,
                         HexTile_DOWN_LEFT, HexTile_DOWN_RIGHT} :
        LET r == HexTile_get_neighbor(tile, map, direction)
        IN  /\ tile' = r.val
            /\ raised' = r.exc
            /\ call' = [op |-> "get_neighbor", self |-> tile, direction |-> direction]
            /\ UNCHANGED map

Next ==
    \/ NewMap
    \/ NewHexMap
    \/ MapGet
    \/ HexMapGet
    \/ TileGetNeighbor
    \/ HexTileGetNeighbor

Spec == Init /\ [][Next]_vars

---------------------------------------------------------------------------
(* The wider session: fewer arrays, but tile sizes down to -1, lookups by  *)
(* pixel and without arguments, directions that are not named ones, and    *)
(* the geometry properties of the tiles.                                   *)

MaxTh == 7

PyInt(n) == [type |-> "int", v |-> n]

WideArrays ==
    {<<MetaArray(MaxCols, MaxRows, NoHole), None>>,
     <<None, ImageArray(1, MaxRows, NoHole)>>,
     <<MetaArray(2, 1, NoHole), ImageArray(2, 1, <<0, 0>>)>>}

RectSizes == ((-1)..MaxSize) \cup {DocSize}

HexSizes == ((-1)..MaxTh) \cup {DocSize}

PixelCoords == ((-2)..(2 * MaxSize)) \cup {-DocSize - 1, DocSize - 1, DocSize}

UnknownTileDirections == {<<1, 1>>, <<-1, -1>>, <<0, 2>>}

UnknownHexTileDirections == {"left", "right", "north"}

TileProperties ==
    {"top", "bottom", "center", "midtop", "midbottom", "left", "right", "topleft",
     "topright", "bottomleft", "bottomright", "midleft", "midright"}

HexTileProperties ==
    {"top", "bottom", "center", "midtop", "midbottom", "left", "right", "topleft",
     "topright", "bottomleft", "bottomright", "midtopleft", "midtopright",
     "midbottomleft", "midbottomright"}

\* the read-only properties of Tile: top = property(get_top), ...
Tile_property(self, name) ==
    CASE name = "top" -> PyInt(Tile_get_top(self))
      [] name = "bottom" -> PyInt(Tile_get_bottom(self))
      [] name = "left" -> PyInt(Tile_get_left(self))
      [] name = "right" -> PyInt(Tile_get_right(self))
      [] name = "center" -> Tuple(Tile_get_center(self))
      [] name = "midtop" -> Tuple(Tile_get_midtop(self))
      [] name = "midbottom" -> Tuple(Tile_get_midbottom(self))
      [] name = "topleft" -> Tuple(Tile_get_topleft(self))
      [] name = "topright" -> Tuple(Tile_get_topright(self))
      [] name = "bottomleft" -> Tuple(Tile_get_bottomleft(self))
      [] name = "bottomright" -> Tuple(Tile_get_bottomright(self))
      [] name = "midleft" -> Tuple(Tile_get_midleft(self))
      [] name = "midright" -> Tuple(Tile_get_midright(self))

\* the read-only properties of HexTile
HexTile_property(self, name) ==
    CASE name = "top" -> PyInt(HexTile_get_top(self))
      [] name = "bottom" -> PyInt(HexTile_get_bottom(self))
      [] name = "left" -> Tuple(HexTile_get_left(self))
      [] name = "right" -> Tuple(HexTile_get_right(self))
      [] name = "center" -> Tuple(HexTile_get_center(self))
      [] name = "midtop" -> Tuple(HexTile_get_midtop(self))
      [] name = "midbottom" -> Tuple(HexTile_get_midbottom(self))
      [] name = "topleft" -> Tuple(HexTile_get_topleft(self))
      [] name = "topright" -> Tuple(HexTile_get_topright(self))
      [] name = "bottomleft" -> Tuple(HexTile_get_bottomleft(self))
      [] name = "bottomright" -> Tuple(HexTile_get_bottomright(self))
      [] name = "midtopleft" -> Tuple(HexTile_get_midtopleft(self))
      [] name = "midtopright" -> Tuple(HexTile_get_midtopright(self))
      [] name = "midbottomleft" -> Tuple(HexTile_get_midbottomleft(self))
      [] name = "midbottomright" -> Tuple(HexTile_get_midbottomright(self))

\* m = Map(tw, th, origin, meta, images), tile sizes of either sign
NewMapWide ==
    /\ map = None
    /\ \E tw \in RectSizes, th \in RectSizes, origin \in Origins, a \in WideArrays :
        LET r == Map__init__(tw, th, origin, a[1], a[2])
        IN  /\ map' = r.val
            /\ raised' = r.exc
            /\ tile' = None
            /\ call' = [op |-> "Map", tw |-> tw, th |-> th, origin |-> origin,
                        meta |-> a[1], images |-> a[2]]

\* m = HexMap(th, origin, meta, images), tile heights of either sign
NewHexMapWide ==
    /\ map = None
    /\ \E th \in HexSizes, origin \in Origins, a \in WideArrays :
        LET r == HexMap__init__(th, origin, a[1], a[2])
        IN  /\ map' = r.val
            /\ raised' = r.exc
            /\ tile' = None
            /\ call' = [op |-> "HexMap", th |-> th, origin |-> origin,
                        meta |-> a[1], images |-> a[2]]

\* m.get(px=px) on a rectangular map
MapGetPx ==
    /\ map.type = "Map"
    /\ \E px \in PixelCoords \X PixelCoords :
        LET r == Map_get(map, None, Tuple(px))
        IN  /\ tile' = r.val
            /\ raised' = r.exc
            /\ call' = [op |-> "get_px", px |-> px]
            /\ UNCHANGED map

\* m.get(px=px) on a hexagonal map
HexMapGetPx ==
    /\ map.type = "HexMap"
    /\ \E px \in PixelCoords \X PixelCoords :
        LET r == HexMap_get(map, None, Tuple(px))
        IN  /\ tile' = r.val
            /\ raised' = r.exc
            /\ call' = [op |-> "get_px", px |-> px]
            /\ UNCHANGED map

\* m.get() on a rectangular map
MapGetNoArgs ==
    /\ map.type = "Map"
    /\ LET r == Map_get(map, None, None)
       IN  /\ tile' = r.val
           /\ raised' = r.exc
           /\ call' = [op |-> "get_noargs"]
           /\ UNCHANGED map

\* m.get() on a hexagonal map
HexMapGetNoArgs ==
    /\ map.type = "HexMap"
    /\ LET r == HexMap_get(map, None, None)
       IN  /\ tile' = r.val
           /\ raised' = r.exc
           /\ call' = [op |-> "get_noargs"]
           /\ UNCHANGED map

\* _.get_neighbor(direction), direction a pair that is no named direction
TileGetNeighborUnknown ==
    /\ tile.type = "Tile"
    /\ \E direction \in UnknownTileDirections :
        LET r == Tile_get_neighbor(tile, map, direction)
        IN  /\ tile' = r.val
            /\ raised' = r.exc
            /\ call' = [op |-> "get_neighbor", self |-> tile, direction |-> direction]
            /\ UNCHANGED map

\* _.get_neighbor(direction), direction a symbol that is no named direction
HexTileGetNeighborUnknown ==
    /\ tile.type = "HexTile"
    /\ \E direction \in UnknownHexTileDirections :
        LET r == HexTile_get_neighbor(tile, map, direction)
        IN  /\ tile' = r.val
            /\ raised' = r.exc
            /\ call' = [op |-> "get_neighbor", self |-> tile, direction |-> direction]
            /\ UNCHANGED map

\* _.top, _.center, ... on the rectangular tile last returned
TileGetProperty ==
    /\ tile.type = "Tile"
    /\ \E name \in TileProperties :
        /\ tile' = Tile_property(tile, name)
        /\ raised' = ""
        /\ call' = [op |-> "property", self |-> tile, name |-> name]
        /\ UNCHANGED map

\* _.top, _.center, ... on the hexagonal tile last returned
HexTileGetProperty ==
    /\ tile.type = "HexTile"
    /\ \E name \in HexTileProperties :
        /\ tile' = HexTile_property(tile, name)
        /\ raised' = ""
        /\ call' = [op |-> "property", self |-> tile, name |-> name]
        /\ UNCHANGED map

NextWide ==
    \/ NewMapWide
    \/ NewHexMapWide
    \/ MapGet
    \/ HexMapGet
    \/ MapGetPx
    \/ HexMapGetPx
    \/ MapGetNoArgs
    \/ HexMapGetNoArgs
    \/ TileGetNeighbor
    \/ HexTileGetNeighbor
    \/ TileGetNeighborUnknown
    \/ HexTileGetNeighborUnknown
    \/ TileGetProperty
    \/ HexTileGetProperty

SpecWide == Init /\ [][NextWide]_vars

---------------------------------------------------------------------------
(* Vocabulary of the properties *)

InBounds(m, x, y) == x >= 0 /\ x < Cols(m) /\ y >= 0 /\ y < Rows(m)

\* the value an array holds at [x][y], None when the array is absent
Cell(array, x, y) ==
    IF array = None THEN None ELSE array.items[x + 1].items[y + 1]

\* a supplied array holds None at [x][y]
ExplicitlyEmpty(m, x, y) ==
    \/ m.meta # None /\ Cell(m.meta, x, y) = None
    \/ m.images # None /\ Cell(m.images, x, y) = None

\* v is the tile of cell (x, y) of m
IsTileOf(v, m, x, y) ==
    /\ IsTile(v)
    /\ v.x = x
    /\ v.y = y
    /\ v.meta = Cell(m.meta, x, y)
    /\ v.image = Cell(m.images, x, y)

CalledGet == call.op = "get"

CalledNeighbor(cls) == call.op = "get_neighbor" /\ call.self.type = cls

---------------------------------------------------------------------------
(* Properties *)

\* C1: Map.get and HexMap.get of a position with x < 0 or y < 0, or x at or
\* beyond the number of columns, or y at or beyond the number of rows,
\* return None and raise nothing.
C1_OutOfRangeIsAbsent ==
    (CalledGet /\ ~InBounds(map, call.pos[1], call.pos[2]))
        => (raised = "" /\ tile = None)

C1_Witness ==
    /\ CalledGet
    /\ map.type = "Map"
    /\ call.pos[1] < 0
    /\ call.pos[2] = Rows(map) - 1
    /\ tile = None

\* C2: get of an in-bounds position (for a HexMap, of a cell where no
\* supplied array holds None) returns a tile whose x and y are the
\* position asked for.
C2_TileCarriesPosition ==
    (/\ CalledGet
     /\ InBounds(map, call.pos[1], call.pos[2])
     /\ (map.type = "HexMap" => ~ExplicitlyEmpty(map, call.pos[1], call.pos[2])))
        => (/\ raised = ""
            /\ IsTile(tile)
            /\ tile.x = call.pos[1]
            /\ tile.y = call.pos[2])

C2_Witness ==
    /\ CalledGet
    /\ map.type = "HexMap"
    /\ IsTile(tile)
    /\ tile.x = 2
    /\ tile.y = 1

\* C3: a tile returned by get at (x, y) has meta = meta[x][y] when meta was
\* supplied and None when not, image = images[x][y] when images was
\* supplied and None when not, and width, height equal to the map's tw, th.
C3_TilePassthrough ==
    (CalledGet /\ IsTile(tile))
        => (/\ tile.meta = Cell(map.meta, call.pos[1], call.pos[2])
            /\ tile.image = Cell(map.images, call.pos[1], call.pos[2])
            /\ tile.width = map.tw
            /\ tile.height = map.th)

C3_Witness ==
    /\ CalledGet
    /\ IsTile(tile)
    /\ map.meta # None
    /\ map.images # None
    /\ tile.meta.type = "str"
    /\ tile.image.type = "image"
    /\ tile.x # tile.y
    /\ tile.width # tile.height

\* C4: constructing a Map or a HexMap with meta and images both absent
\* raises and yields no map; constructing with at least one non-empty
\* rectangular array succeeds.
C4_ConstructionOutcome ==
    (call.op \in {"Map", "HexMap"})
        => IF call.meta = None /\ call.images = None
           THEN raised # "" /\ map = None
           ELSE raised = "" /\ map.type = call.op

\* C5: constructing a rectangular Map from an array of tiles_x >= 1 columns
\* and tiles_y >= 1 rows succeeds with pxw = tiles_x * tw and
\* pxh = tiles_y * th.
C5_MapPixelSize ==
    (call.op = "Map" /\ ~(call.meta = None /\ call.images = None))
        => (/\ raised = ""
            /\ map.type = "Map"
            /\ map.pxw = Cols(call) * call.tw
            /\ map.pxh = Rows(call) * call.th)

\* C6: on a rectangular Map, get_neighbor(direction) of the tile at (x, y),
\* for direction (dx, dy) among UP, DOWN, LEFT, RIGHT, is the tile of cell
\* (x + dx, y + dy) with that cell's meta and image when the cell is in
\* bounds, and None when it is off the edge.
C6_RectNeighbor ==
    CalledNeighbor("Tile")
        => LET nx == call.self.x + call.direction[1]
               ny == call.self.y + call.direction[2]
           IN  /\ raised = ""
               /\ IF InBounds(map, nx, ny)
                  THEN IsTileOf(tile, map, nx, ny)
                  ELSE tile = None

C6_Witness ==
    /\ CalledNeighbor("Tile")
    /\ call.direction = Tile_RIGHT
    /\ call.self.x = 1
    /\ call.self.y = 1
    /\ IsTile(tile)
    /\ tile.x = 2
    /\ tile.y = 1

\* the cell the column-parity rule names from (x, y) in a direction
HexNeighborCell(x, y, direction) ==
    CASE direction = HexTile_UP -> <<x, y + 1>>
      [] direction = HexTile_DOWN -> <<x, y - 1>>
      [] direction = HexTile_UP_LEFT /\ x % 2 = 1 -> <<x - 1, y + 1>>
      [] direction = HexTile_UP_RIGHT /\ x % 2 = 1 -> <<x + 1, y + 1>>
      [] direction = HexTile_DOWN_LEFT /\ x % 2 = 1 -> <<x - 1, y>>
      [] direction = HexTile_DOWN_RIGHT /\ x % 2 = 1 -> <<x + 1, y>>
      [] direction = HexTile_UP_LEFT /\ x % 2 = 0 -> <<x - 1, y>>
      [] direction = HexTile_UP_RIGHT /\ x % 2 = 0 -> <<x + 1, y>>
      [] direction = HexTile_DOWN_LEFT /\ x % 2 = 0 -> <<x - 1, y - 1>>
      [] direction = HexTile_DOWN_RIGHT /\ x % 2 = 0 -> <<x + 1, y - 1>>

Opposite(direction) ==
    CASE direction = HexTile_UP -> HexTile_DOWN
      [] direction = HexTile_DOWN -> HexTile_UP
      [] direction = HexTile_UP_LEFT -> HexTile_DOWN_RIGHT
      [] direction = HexTile_DOWN_RIGHT -> HexTile_UP_LEFT
      [] direction = HexTile_UP_RIGHT -> HexTile_DOWN_LEFT
      [] direction = HexTile_DOWN_LEFT -> HexTile_UP_RIGHT

\* the tiles t of the map whose neighbour in the direction opposite to the
\* last call's is the tile the last call was made on
CameFrom ==
    {t \in {HexMap_get(map, Tuple(p), None).val : p \in Positions} :
        /\ IsTile(t)
        /\ HexTile_get_neighbor(t, map, Opposite(call.direction)) = Ok(call.self)}

\* C8: hex neighbour symmetry: when n = t.get_neighbor(d) is a tile, then
\* n.get_neighbor(opposite of d) is a tile with the coordinates, meta and
\* image of t, for even and odd columns.
C8_HexNeighborSymmetry ==
    CalledNeighbor("HexTile")
        => \A t \in CameFrom :
            /\ raised = ""
            /\ IsTile(tile)
            /\ tile.x = t.x
            /\ tile.y = t.y
            /\ tile.meta = t.meta
            /\ tile.image = t.image

C8_Witness ==
    /\ CalledNeighbor("HexTile")
    /\ call.direction = HexTile_DOWN_LEFT
    /\ call.self.x = 3
    /\ CameFrom # {}
    /\ IsTile(tile)
    /\ tile.x = 2

\* m = Map(32, 32, meta=[['a', 'd'], ['b', 'e'], ['c', 'f']])
IsDocMap ==
    /\ map.type = "Map"
    /\ map.tw = DocSize
    /\ map.th = DocSize
    /\ map.meta = DocMapMeta
    /\ map.images = None

\* the last call was get_neighbor(direction) on the tile at (x, y)
NeighborOf(x, y, direction) ==
    /\ call.op = "get_neighbor"
    /\ call.self.x = x
    /\ call.self.y = y
    /\ call.direction = direction

\* the value of the last call is the tile (x, y) with meta s
IsTileWithMeta(x, y, s) ==
    /\ raised = ""
    /\ IsTile(tile)
    /\ tile.x = x
    /\ tile.y = y
    /\ tile.meta = Str(s)

\* C9: on the Map of the module docstring, get((0,0)).meta is 'a';
\* get((0,0)).get_neighbor(RIGHT) is the tile (1,0) with meta 'b';
\* get((0,0)).get_neighbor(UP) has meta 'd'; get((1,0)).get_neighbor(UP) is
\* the tile (1,1) with meta 'e'; get_neighbor(UP) of the tiles (0,1) and
\* (1,1) is None.
C9_DocMapScenario ==
    IsDocMap
        => /\ (CalledGet /\ call.pos = <<0, 0>>) => IsTileWithMeta(0, 0, "a")
           /\ NeighborOf(0, 0, Tile_RIGHT) => IsTileWithMeta(1, 0, "b")
           /\ NeighborOf(0, 0, Tile_UP) => IsTileWithMeta(0, 1, "d")
           /\ NeighborOf(1, 0, Tile_UP) => IsTileWithMeta(1, 1, "e")
           /\ NeighborOf(0, 1, Tile_UP) => (raised = "" /\ tile = None)
           /\ NeighborOf(1, 1, Tile_UP) => (raised = "" /\ tile = None)

C9_Witness ==
    /\ IsDocMap
    /\ NeighborOf(1, 0, Tile_UP)
    /\ IsTileWithMeta(1, 1, "e")

\* m = HexMap(32, meta=[['a', 'b'], ['c', 'd'], ['e', 'f'], ['g', 'h']])
IsDocHexMap ==
    /\ map.type = "HexMap"
    /\ map.th = DocSize
    /\ map.meta = DocHexMeta
    /\ map.images = None

C15_AbsentExactlyWhenEmpty ==
    (CalledGet /\ InBounds(map, call.pos[1], call.pos[2]))
        => /\ raised = ""
           /\ IF map.type = "HexMap" /\ ExplicitlyEmpty(map, call.pos[1], call.pos[2])
              THEN tile = None
              ELSE IsTile(tile)

C15_Witness ==
    /\ CalledGet
    /\ map.type = "HexMap"
    /\ call.pos = <<0, 0>>
    /\ map.meta # None
    /\ map.images # None
    /\ Cell(map.meta, 0, 0) # None
    /\ Cell(map.images, 0, 0) = None
    /\ tile = None

\* the top edge of the hexagon of cell (x, y) of m
HexTopAt(m, x, y) == HexTile_get_top(TileBase__init__("HexTile", m, x, y, None, None))

\* C17 as stated: for a HexMap of exactly one column, pxh is the top edge of
\* the row-0 tile of that column.
C17_SingleColumnPxh_AsStated ==
    (map.type = "HexMap" /\ Cols(map) = 1)
        => map.pxh = HexTopAt(map, 0, 0)

\* C17 (amended): for a HexMap of exactly one column and height rows, pxh is
\* the top edge of the tile in row height-1 of column 0, which is
\* height * th.
C17_SingleColumnPxh ==
    (map.type = "HexMap" /\ Cols(map) = 1)
        => /\ map.pxh = HexTopAt(map, 0, Rows(map) - 1)
           /\ map.pxh = Rows(map) * map.th

C17_Witness ==
    /\ call.op = "HexMap"
    /\ map.type = "HexMap"
    /\ Cols(map) = 1
    /\ Rows(map) = 2
    /\ map.pxh = 2 * map.th


\* C20: the points two neighbouring hexagons share have the same integer
\* pixel coordinates, for every positive th: with n the UP neighbour of t,
\* t.top = n.bottom, t.topleft = n.bottomleft, t.topright = n.bottomright
\* and t.midtop = n.midbottom; with n the UP_RIGHT neighbour of t (t in an
\* even or an odd column), t.topright = n.left and t.right = n.bottomleft.
C20_SharedPointsCoincide ==
    (CalledNeighbor("HexTile") /\ IsTile(tile) /\ map.th > 0)
        => LET t == call.self
               n == tile
           IN  /\ call.direction = HexTile_UP
                    => /\ HexTile_get_top(t) = HexTile_get_bottom(n)
                       /\ HexTile_get_topleft(t) = HexTile_get_bottomleft(n)
                       /\ HexTile_get_topright(t) = HexTile_get_bottomright(n)
                       /\ HexTile_get_midtop(t) = HexTile_get_midbottom(n)
               /\ call.direction = HexTile_UP_RIGHT
                    => /\ HexTile_get_topright(t) = HexTile_get_left(n)
                       /\ HexTile_get_right(t) = HexTile_get_bottomleft(n)


\* the last call was get_neighbor with a direction that is not one of the
\* named directions of the tile's class
CalledUnknownDirection ==
    /\ call.op = "get_neighbor"
    /\ IF call.self.type = "Tile"
       THEN call.direction \notin {Tile_UP, Tile_DOWN, Tile_LEFT, Tile_RIGHT}
       ELSE call.direction \notin {HexTile_UP, HexTile_DOWN, HexTile_UP_LEFT,
                                   HexTile_UP_RIGHT, HexTile_DOWN_LEFT,
                                   HexTile_DOWN_RIGHT}

\* C11: get_neighbor with a direction that is not a named direction of the
\* tile's class raises; it returns neither a tile nor None.
C11_UnknownDirectionRaises ==
    CalledUnknownDirection => raised # ""

\* the floor of a / b for b >= 1: the q with q * b <= a < (q + 1) * b
FloorOf(a, b) ==
    CHOOSE q \in (-(a * a) - 1)..(a * a + 1) : q * b <= a /\ a < (q + 1) * b

\* C12: on a rectangular Map with tw >= 1 and th >= 1, get(px=(px, py)), for
\* integers px, py of either sign, returns what get(pos=(floor(px / tw),
\* floor(py / th))) returns: the tile of that cell, or None when that cell
\* is out of bounds.
C12_PixelLookupFloors ==
    (call.op = "get_px" /\ map.type = "Map" /\ map.tw >= 1 /\ map.th >= 1)
        => LET fx == FloorOf(call.px[1], map.tw)
               fy == FloorOf(call.px[2], map.th)
           IN  /\ [exc |-> raised, val |-> tile] = Map_get(map, Tuple(<<fx, fy>>), None)
               /\ raised = ""
               /\ IF InBounds(map, fx, fy)
                  THEN IsTileOf(tile, map, fx, fy)
                  ELSE tile = None

C12_Witness ==
    /\ call.op = "get_px"
    /\ map.type = "Map"
    /\ map.tw = 2
    /\ map.th = 1
    /\ call.px = <<3, 1>>
    /\ IsTile(tile)
    /\ tile.x = 1
    /\ tile.y = 1

C14_NonPositiveSizeRejected ==
    /\ (call.op = "Map" /\ (call.tw <= 0 \/ call.th <= 0))
            => (raised # "" /\ map = None)
    /\ map.type = "Map" => (map.tw > 0 /\ map.th > 0)


\* C16: for every positive th, HexMap construction sets edge_length to the
\* integer truncation of th / sqrt(3), the largest e with 3 * e * e <=
\* th * th, and tw to 2 * edge_length; every HexTile of the map has
\* width = tw and height = th.
C16_EdgeLength ==
    (map.type = "HexMap" /\ map.th > 0)
        => /\ map.edge_length >= 0
           /\ 3 * map.edge_length * map.edge_length <= map.th * map.th
           /\ 3 * (map.edge_length + 1) * (map.edge_length + 1) > map.th * map.th
           /\ map.tw = 2 * map.edge_length
           /\ IsTile(tile) => (tile.width = map.tw /\ tile.height = map.th)
           /\ call.op \in {"get_neighbor", "property"}
                => (call.self.width = map.tw /\ call.self.height = map.th)

C16_Witness ==
    /\ CalledGet
    /\ map.type = "HexMap"
    /\ map.th = 7
    /\ map.edge_length = 4
    /\ IsTile(tile)
    /\ tile.width = 8
    /\ tile.height = 7

\* the hexagon of cell (x, y) of m
HexAt(m, x, y) == TileBase__init__("HexTile", m, x, y, None, None)

Cells(m) == (0..(Cols(m) - 1)) \X (0..(Rows(m) - 1))

\* C18: for a HexMap with positive th, pxw and pxh are a tight bounding box:
\* every in-bounds hexagon has bottom >= 0, left corner x >= 0, right corner
\* x <= pxw and top <= pxh, some in-bounds hexagon has right corner x = pxw
\* and some has top = pxh, with one column and with several.
C18_TightBoundingBox ==
    (map.type = "HexMap" /\ map.th > 0)
        => /\ \A c \in Cells(map) :
                LET t == HexAt(map, c[1], c[2])
                IN  /\ HexTile_get_bottom(t) >= 0
                    /\ HexTile_get_left(t)[1] >= 0
                    /\ HexTile_get_right(t)[1] <= map.pxw
                    /\ HexTile_get_top(t) <= map.pxh
           /\ \E c \in Cells(map) : HexTile_get_right(HexAt(map, c[1], c[2]))[1] = map.pxw
           /\ \E c \in Cells(map) : HexTile_get_top(HexAt(map, c[1], c[2])) = map.pxh

C18_Witness ==
    /\ call.op = "HexMap"
    /\ map.type = "HexMap"
    /\ map.th = 5
    /\ Cols(map) = MaxCols
    /\ Rows(map) = MaxRows
    /\ map.pxh = MaxRows * 5 + 2

\* C19: get, get_neighbor and the geometry properties leave the map as it
\* was constructed (tw, th, x, y, z, pxw, pxh, meta, images, and no other
\* field), and a get repeated with the same position returns an equal
\* tile.
\* what get(pos) returns on the map m
GetOn(m, pos) ==
    IF m.type = "Map" THEN Map_get(m, Tuple(pos), None)
    ELSE HexMap_get(m, Tuple(pos), None)

C19_QueriesLeaveMapUnchanged ==
    [][map # None
        => /\ map' = map
           /\ (call.op = "get" /\ call'.op = "get" /\ call'.pos = call.pos)
                => (tile' = tile /\ raised' = raised)
           /\ call'.op = "get"
                => [exc |-> raised', val |-> tile'] = GetOn(map, call'.pos)]_vars

C19_Witness ==
    /\ call.op = "property"
    /\ call.name = "center"
    /\ call.self.x = 1
    /\ map.type = "HexMap"
    /\ map.th = DocSize
    /\ map.x = 0
    /\ map.pxw = 90


\* C21: for every rectangular Tile with x, y >= 0 and positive width and
\* height, the corner and side-midpoint accessors agree with the edge
\* accessors: topleft = (left, top), topright = (right, top), bottomleft =
\* (left, bottom), bottomright = (right, bottom), midtop has y = top,
\* midbottom has y = bottom, midleft has x = left, midright has x = right,
\* and bottom < top, left < right.
C21_CornersAgreeWithEdges ==
    (IsTile(tile) /\ tile.type = "Tile" /\ tile.width > 0 /\ tile.height > 0)
        => LET top == Tile_get_top(tile)
               bottom == Tile_get_bottom(tile)
               left == Tile_get_left(tile)
               right == Tile_get_right(tile)
           IN  /\ Tile_get_topleft(tile) = <<left, top>>
               /\ Tile_get_topright(tile) = <<right, top>>
               /\ Tile_get_bottomleft(tile) = <<left, bottom>>
               /\ Tile_get_bottomright(tile) = <<right, bottom>>
               /\ Tile_get_midtop(tile)[2] = top
               /\ Tile_get_midbottom(tile)[2] = bottom
               /\ Tile_get_midleft(tile)[1] = left
               /\ Tile_get_midright(tile)[1] = right
               /\ bottom < top
               /\ left < right

\* the tiles of m: what get(pos) returns at the in-bounds cells that hold one
TilesOf(m) ==
    {r.val : r \in {s \in {Map_get(m, Tuple(c), None) : c \in Cells(m)} :
                        s.exc = "" /\ IsTile(s.val)}}

\* the pixel p lies in the half-open pixel rectangle of the tile t
PixelInside(p, t) ==
    /\ Tile_get_left(t) <= p[1]
    /\ p[1] < Tile_get_right(t)
    /\ Tile_get_bottom(t) <= p[2]
    /\ p[2] < Tile_get_top(t)

\* C22: on a rectangular Map with tw, th >= 1, for every tile t of the map
\* and every integer pixel with t.left <= px < t.right and t.bottom <= py <
\* t.top, get(px=(px, py)) returns a tile with the x and y of t; so does
\* get(px=t.center); the pixel (t.right, t.top) resolves to the diagonal
\* neighbour (x + 1, y + 1) or to None, never to t.
C22_PixelLookupInvertsGeometry ==
    (call.op = "get_px" /\ map.type = "Map" /\ map.tw >= 1 /\ map.th >= 1)
        => \A t \in TilesOf(map) :
            /\ (PixelInside(call.px, t) \/ call.px = Tile_get_center(t))
                    => /\ raised = ""
                       /\ IsTile(tile)
                       /\ tile.x = t.x
                       /\ tile.y = t.y
            /\ call.px = <<Tile_get_right(t), Tile_get_top(t)>>
                    => /\ raised = ""
                       /\ \/ tile = None
                          \/ /\ IsTile(tile)
                             /\ tile.x = t.x + 1
                             /\ tile.y = t.y + 1

C22_Witness ==
    /\ call.op = "get_px"
    /\ map.type = "Map"
    /\ map.tw = 2
    /\ map.th = 1
    /\ call.px = <<3, 1>>
    /\ IsTile(tile)
    /\ tile.x = 1
    /\ tile.y = 1
    /\ \E t \in TilesOf(map) :
        /\ t.x = 1
        /\ t.y = 1
        /\ PixelInside(call.px, t)
        /\ call.px = Tile_get_center(t)

====
